---- MODULE Spec2Model ----
(***************************************************************************)
(* Model of nimble/host/src/ble_monitor.c: the BLE monitor transport.      *)
(*                                                                         *)
(* Producers (tasks) call ble_monitor_send / ble_monitor_send_om; each     *)
(* encodes a header, takes the session mutex, and pushes header and        *)
(* payload bytes through monitor_write / monitor_uart_queue_char into the  *)
(* 64 byte ring buffer.  The UART driver's TX interrupt pulls one byte per *)
(* invocation through monitor_uart_tx_char.                                *)
(*                                                                         *)
(* Integers wider than TLC's 32 bit integers (int64_t timestamps, the      *)
(* uint32_t ts32 field) are little-endian sequences of bytes.              *)
(***************************************************************************)
EXTENDS Integers, Sequences, FiniteSets, TLC

\* ------------------------------------------------------------------------
\* Program constants

\* #define UTC01_01_2016 1451606400
UTC01_01_2016 == 1451606400

\* static uint8_t tx_ringbuf[64]: sizeof(tx_ringbuf)
SizeofRingbuf == 64

\* sizeof(hdr->type), sizeof(hdr->ts32), and BLE_MONITOR_EXTHDR_TS32
\* (struct ble_monitor_hdr is declared in ble_monitor_priv.h)
SizeofType == 1
SizeofTs32 == 4
BLE_MONITOR_EXTHDR_TS32 == 8

\* width in bytes of int64_t (the ts parameter of encode_monitor_hdr)
SizeofInt64 == 8

\* ------------------------------------------------------------------------
\* Bounds of the workload

\* length of the long payload a ble_monitor_send call may carry
LongLen == 64
\* number of ble_monitor_send calls of the sending producer
NSends == 1
\* slack around the 16 bit boundaries for the lengths tried by SpecEnc
LenSlack == 2

\* ------------------------------------------------------------------------
\* Fixed width arithmetic

U8(x)  == x % 256
U16(x) == x % 65536

RECURSIVE BitAnd(_, _)
\* a & b on naturals
BitAnd(a, b) ==
  IF a = 0 \/ b = 0 THEN 0
  ELSE (a % 2) * (b % 2) + 2 * BitAnd(a \div 2, b \div 2)

\* htole16(x) laid out in memory
Le16(x) == << U16(x) % 256, U16(x) \div 256 >>

\* a natural below 2^31 as an int64_t: SizeofInt64 little-endian bytes
BigFromNat(n) ==
  [j \in 1..SizeofInt64 |->
     IF j = 1 THEN n % 256
     ELSE IF j = 2 THEN (n \div 256) % 256
     ELSE IF j = 3 THEN (n \div 65536) % 256
     ELSE IF j = 4 THEN (n \div 16777216) % 256
     ELSE 0]

RECURSIVE BigMulFrom(_, _, _, _)
BigMulFrom(b, m, j, carry) ==
  IF j > Len(b) THEN << >>
  ELSE LET t == b[j] * m + carry
       IN  << t % 256 >> \o BigMulFrom(b, m, j + 1, t \div 256)

\* b * m for a small multiplier m, truncated to the width of b
BigMulSmall(b, m) == BigMulFrom(b, m, 1, 0)

RECURSIVE BigAddFrom(_, _, _, _)
BigAddFrom(a, b, j, carry) ==
  IF j > Len(a) THEN << >>
  ELSE LET t == a[j] + b[j] + carry
       IN  << t % 256 >> \o BigAddFrom(a, b, j + 1, t \div 256)

\* a + b, truncated to the width of a
BigAdd(a, b) == BigAddFrom(a, b, 1, 0)

RECURSIVE BigDivFrom(_, _, _, _)
BigDivFrom(b, d, j, rem) ==
  IF j = 0 THEN << >>
  ELSE LET cur == rem * 256 + b[j]
       IN  BigDivFrom(b, d, j - 1, cur % d) \o << cur \div d >>

\* b / d (integer division) for a small divisor d
BigDivSmall(b, d) == BigDivFrom(b, d, Len(b), 0)

\* htole32((uint32_t) b) laid out in memory: the low SizeofTs32 bytes
Le32OfBig(b) == SubSeq(b, 1, SizeofTs32)

\* ------------------------------------------------------------------------
\* Ring buffer

\* inc_and_wrap wrapping by a modulus that is one short
inc_and_wrap_mod(i, max) == (i + 1) % (max - 1)

inc_and_wrap(i, max) == BitAnd(i + 1, max - 1)

\* the full test without the wrap
ringbuf_full_nowrap(head, tail) == head + 1 = tail

\* while (inc_and_wrap(tx_ringbuf_head, sizeof(tx_ringbuf)) == tx_ringbuf_tail)
ringbuf_full(head, tail) == inc_and_wrap(head, SizeofRingbuf) = tail

\* the byte returned through a signed char
monitor_uart_tx_char_signed(buf, head, tail) ==
  IF head = tail
  THEN [ret |-> -1, tail |-> tail]
  ELSE [ret |-> IF buf[tail] >= 128 THEN buf[tail] - 256 ELSE buf[tail],
        tail |-> U8(inc_and_wrap(tail, SizeofRingbuf))]

\* monitor_uart_tx_char: the value returned and the new tail
monitor_uart_tx_char(buf, head, tail) ==
  IF head = tail
  THEN [ret |-> -1, tail |-> tail]
  ELSE [ret |-> buf[tail], tail |-> U8(inc_and_wrap(tail, SizeofRingbuf))]

\* ------------------------------------------------------------------------
\* Header encoder

\* the time sources as read by one call of encode_monitor_hdr:
\* rc, tv_sec, tv_usec from os_gettimeofday, up_sec/up_usec the value of
\* os_get_uptime_usec() = up_sec * 1000000 + up_usec
Usec(sec, usec) == BigAdd(BigMulSmall(BigFromNat(sec), 1000000), BigFromNat(usec))

os_get_uptime_usec(t) == Usec(t.up_sec, t.up_usec)

\* the timestamp chosen without looking at rc
monitor_timestamp_norc(ts, t) ==
  IF ts < 0
  THEN IF t.tv_sec < UTC01_01_2016
       THEN os_get_uptime_usec(t)
       ELSE Usec(t.tv_sec, t.tv_usec)
  ELSE BigFromNat(ts)

\* the timestamp chosen with the reference instant itself rejected
monitor_timestamp_le(ts, t) ==
  IF ts < 0
  THEN IF t.rc # 0 \/ t.tv_sec <= UTC01_01_2016
       THEN os_get_uptime_usec(t)
       ELSE Usec(t.tv_sec, t.tv_usec)
  ELSE BigFromNat(ts)

\* the sentinel compared off by one: -1 is taken for a timestamp, and
\* -1 / 100 is 0
monitor_timestamp_given(ts, t) ==
  IF ts < -1
  THEN IF t.rc # 0 \/ t.tv_sec < UTC01_01_2016
       THEN os_get_uptime_usec(t)
       ELSE Usec(t.tv_sec, t.tv_usec)
  ELSE BigFromNat(IF ts < 0 THEN 0 ELSE ts)

\* lines 108-116: the timestamp (int64_t) the header is stamped with
monitor_timestamp(ts, t) ==
  IF ts < 0
  THEN IF t.rc # 0 \/ t.tv_sec < UTC01_01_2016
       THEN os_get_uptime_usec(t)
       ELSE Usec(t.tv_sec, t.tv_usec)
  ELSE BigFromNat(ts)

\* data_len without the extended header
monitor_data_len_nohdr(hdr_len, len) == U16(4 + U16(len))

\* hdr->data_len = htole16(4 + hdr->hdr_len + len), len a uint16_t parameter
monitor_data_len(hdr_len, len) == U16(4 + hdr_len + U16(len))

encode_monitor_hdr(ts, opcode, len, t) ==
  LET hdr_len == SizeofType + SizeofTs32
  IN  [ hdr_len  |-> hdr_len,
        data_len |-> monitor_data_len(hdr_len, len),
        opcode   |-> U16(opcode),
        flags    |-> 0,
        type     |-> BLE_MONITOR_EXTHDR_TS32,
        ts32     |-> Le32OfBig(BigDivSmall(monitor_timestamp(ts, t), 100)) ]

\* struct ble_monitor_hdr as it lies in memory (packed, little-endian)
hdr_bytes(h) ==
  Le16(h.data_len) \o << h.hdr_len >> \o Le16(h.opcode) \o Le16(h.flags)
    \o << h.type >> \o h.ts32

\* ------------------------------------------------------------------------
\* State

Producers == {1, 2}

VARIABLES
  tx_ringbuf,        \* static uint8_t tx_ringbuf[64], indexed 0..63
  tx_ringbuf_head,   \* static uint8_t tx_ringbuf_head
  tx_ringbuf_tail,   \* static uint8_t tx_ringbuf_tail
  lock,              \* struct os_mutex lock: 0 when free, else the owner
  crit,              \* who is between OS_ENTER_CRITICAL and OS_EXIT_CRITICAL (0: nobody)
  tx_running,        \* UART driver: TX interrupt enabled by uart_start_tx
  pc,                \* per producer: "idle", "pend", "write", "release"
  job,               \* per producer: the call's api and its buffers, hdr first
  k,                 \* per producer: index of the buffer monitor_write is on
  i,                 \* per producer: bytes of that buffer already queued
  sub,               \* per producer: place inside monitor_write / monitor_uart_queue_char
  qc_kicked,         \* per producer: uart_start_tx was called by the current queue_char call
  budget,            \* calls each producer still makes
  now,               \* the clock, in 100 us ticks
  pushed,            \* history: the bytes passed to monitor_uart_queue_char
  wire,              \* history: the bytes returned by monitor_uart_tx_char
  records,           \* history: the records, in the order the lock was taken
  enc,               \* the sequential call checked by SpecEnc
  ret,               \* history, per producer: the values its calls returned
  uart,              \* struct uart_dev *uart: "NULL" or the device opened
  init_trace         \* history: what ble_monitor_init called and returned

vars == << tx_ringbuf, tx_ringbuf_head, tx_ringbuf_tail, lock, crit, tx_running,
           pc, job, k, i, sub, qc_kicked, budget, now, pushed, wire, records, enc,
           ret, uart, init_trace >>

ringvars == << tx_ringbuf, tx_ringbuf_head, tx_ringbuf_tail >>
histvars == << pushed, wire, records >>
apivars == << uart, init_trace >>

NoJob == [api |-> "none", bufs |-> << >>]

\* the clock sources as a call at tick n reads them: the wall clock was
\* never set and counts from the epoch, so it reads the uptime
ClockRead(n) ==
  [rc |-> 0, tv_sec |-> 0, tv_usec |-> 100 * n, up_sec |-> 0, up_usec |-> 100 * n]

\* the calls of the workload: a ble_monitor_send call with its data as the
\* one buffer, a ble_monitor_send_om call with the om_data of each fragment
LongSend  == [api |-> "send", opcode |-> 18, bufs |-> << [j \in 1..LongLen |-> U8(j)] >>]
ShortSend == [api |-> "send", opcode |-> 2, bufs |-> << [j \in 1..10 |-> 170] >>]
ChainSend == [api |-> "send_om", opcode |-> 3, bufs |-> << <<255>>, << >>, <<178, 179>> >>]

\* the workload: how many calls each producer makes, and which.  Producer 1
\* sends long records, producer 2 a short one, flat or as an mbuf chain
Workload ==
  [p \in Producers |->
     IF p = 1 THEN [calls |-> NSends, menu |-> {LongSend}]
     ELSE [calls |-> 1, menu |-> {ShortSend, ChainSend}]]

\* the workload of LiveSpec: one call, long or chained
WorkloadLive ==
  [p \in Producers |->
     IF p = 1 THEN [calls |-> 1, menu |-> {LongSend, ChainSend}]
     ELSE [calls |-> 0, menu |-> {}]]

NoWorkload == [p \in Producers |-> [calls |-> 0, menu |-> {}]]

RECURSIVE Flatten(_)
Flatten(ss) == IF ss = << >> THEN << >> ELSE Head(ss) \o Flatten(Tail(ss))

\* the om_len of each fragment of a chain
om_lens(om) == [j \in 1..Len(om) |-> Len(om[j])]

\* the chain's length taken from its first fragment alone
om_length_first(lens, length) ==
  IF lens = << >> THEN length ELSE U16(length + Head(lens))

RECURSIVE om_length(_, _)
\* lines 170-176: uint16_t length = 0; length += om_tmp->om_len over the chain
om_length(lens, length) ==
  IF lens = << >> THEN length
  ELSE om_length(Tail(lens), U16(length + Head(lens)))

\* os_dev_open("uart0", OS_TIMEOUT_NEVER, &uc) returning dev, with the
\* callbacks of uc (lines 126-138)
os_dev_open(dev) ==
  [fn |-> "os_dev_open", name |-> "uart0", uc_tx_char |-> "monitor_uart_tx_char",
   uc_rx_char |-> "NULL", res |-> dev]

\* ble_monitor_init going on without looking at what os_dev_open returned
ble_monitor_init_trace_nocheck(dev) ==
  << os_dev_open(dev), [fn |-> "os_mutex_init", res |-> "lock"], [fn |-> "return", res |-> 0] >>

\* ble_monitor_init, lines 137-145: the calls it makes and the value it
\* returns when os_dev_open returns dev
ble_monitor_init_trace(dev) ==
  IF dev = "NULL"
  THEN << os_dev_open(dev), [fn |-> "return", res |-> -1] >>
  ELSE << os_dev_open(dev), [fn |-> "os_mutex_init", res |-> "lock"], [fn |-> "return", res |-> 0] >>

\* the state once ble_monitor_init has returned 0, with the workload w ahead
InitWith(w, e) ==
  /\ tx_ringbuf = [j \in 0..(SizeofRingbuf - 1) |-> 0]
  /\ tx_ringbuf_head = 0
  /\ tx_ringbuf_tail = 0
  /\ lock = 0
  /\ crit = 0
  /\ tx_running = FALSE
  /\ pc = [p \in Producers |-> "idle"]
  /\ job = [p \in Producers |-> NoJob]
  /\ k = [p \in Producers |-> 0]
  /\ i = [p \in Producers |-> 0]
  /\ sub = [p \in Producers |-> "loop"]
  /\ qc_kicked = [p \in Producers |-> FALSE]
  /\ budget = w
  /\ now = 0
  /\ pushed = << >>
  /\ wire = << >>
  /\ records = << >>
  /\ enc = e
  /\ ret = [p \in Producers |-> << >>]
  /\ uart = "uart0"
  /\ init_trace = ble_monitor_init_trace("uart0")

Init == InitWith(Workload, [pc |-> "off"])

InitLive == InitWith(WorkloadLive, [pc |-> "off"])

\* ------------------------------------------------------------------------
\* Producers

\* Between OS_ENTER_CRITICAL and OS_EXIT_CRITICAL interrupts are disabled:
\* neither the TX interrupt nor another task runs, so every other step
\* waits for crit = 0.

\* ble_monitor_send, line 153: encode_monitor_hdr(&hdr, -1, opcode, len)
ble_monitor_send_encode(p) ==
  /\ pc[p] = "idle" /\ crit = 0
  /\ budget[p].calls > 0
  /\ \E c \in { m \in budget[p].menu : m.api = "send" } :
       LET data == c.bufs[1]
           hdr == encode_monitor_hdr(-1, c.opcode, Len(data), ClockRead(now))
       IN  job' = [job EXCEPT ![p] = [api |-> "send", bufs |-> << hdr_bytes(hdr), data >>]]
  /\ budget' = [budget EXCEPT ![p].calls = @ - 1]
  /\ now' = now + 1
  /\ pc' = [pc EXCEPT ![p] = "pend"]
  /\ UNCHANGED << ringvars, lock, crit, tx_running, k, i, sub, qc_kicked, histvars, enc, ret, apivars >>

\* ble_monitor_send_om, lines 170-178: sum the chain, then encode the header
ble_monitor_send_om_encode(p) ==
  /\ pc[p] = "idle" /\ crit = 0
  /\ budget[p].calls > 0
  /\ \E c \in { m \in budget[p].menu : m.api = "send_om" } :
       LET length == om_length(om_lens(c.bufs), 0)
           hdr == encode_monitor_hdr(-1, c.opcode, length, ClockRead(now))
       IN  job' = [job EXCEPT ![p] = [api |-> "send_om", bufs |-> << hdr_bytes(hdr) >> \o c.bufs]]
  /\ budget' = [budget EXCEPT ![p].calls = @ - 1]
  /\ now' = now + 1
  /\ pc' = [pc EXCEPT ![p] = "pend"]
  /\ UNCHANGED << ringvars, lock, crit, tx_running, k, i, sub, qc_kicked, histvars, enc, ret, apivars >>

\* os_mutex_pend returning although the lock is held
os_mutex_pend_nolock(p) ==
  /\ pc[p] = "pend" /\ crit = 0
  /\ lock' = p
  /\ pc' = [pc EXCEPT ![p] = "write"]
  /\ k' = [k EXCEPT ![p] = 1]
  /\ i' = [i EXCEPT ![p] = 0]
  /\ sub' = [sub EXCEPT ![p] = "loop"]
  /\ records' = Append(records, Flatten(job[p].bufs))
  /\ UNCHANGED << ringvars, crit, tx_running, job, qc_kicked, budget, now, pushed, wire, enc, ret, apivars >>

\* os_mutex_pend(&lock, OS_TIMEOUT_NEVER), lines 155 and 180
os_mutex_pend(p) ==
  /\ pc[p] = "pend" /\ crit = 0
  /\ lock = 0
  /\ lock' = p
  /\ pc' = [pc EXCEPT ![p] = "write"]
  /\ k' = [k EXCEPT ![p] = 1]
  /\ i' = [i EXCEPT ![p] = 0]
  /\ sub' = [sub EXCEPT ![p] = "loop"]
  /\ records' = Append(records, Flatten(job[p].bufs))
  /\ UNCHANGED << ringvars, crit, tx_running, job, qc_kicked, budget, now, pushed, wire, enc, ret, apivars >>

\* monitor_write, lines 89-90: while (len--) monitor_uart_queue_char(*ch++),
\* up to OS_ENTER_CRITICAL of the callee (line 68)
monitor_write_next(p) ==
  /\ pc[p] = "write" /\ sub[p] = "loop" /\ crit = 0
  /\ i[p] < Len(job[p].bufs[k[p]])
  /\ pushed' = Append(pushed, job[p].bufs[k[p]][i[p] + 1])
  /\ crit' = p
  /\ sub' = [sub EXCEPT ![p] = "crit"]
  /\ qc_kicked' = [qc_kicked EXCEPT ![p] = FALSE]
  /\ UNCHANGED << ringvars, lock, tx_running, pc, job, k, i, budget, now, wire, records, enc, ret, apivars >>

\* the full buffer waited on without uart_start_tx
monitor_uart_queue_char_full_nokick(p) ==
  /\ pc[p] = "write" /\ sub[p] = "crit" /\ crit = p
  /\ ringbuf_full(tx_ringbuf_head, tx_ringbuf_tail)
  /\ crit' = 0
  /\ sub' = [sub EXCEPT ![p] = "spin"]
  /\ UNCHANGED << ringvars, lock, tx_running, qc_kicked, pc, job, k, i, budget, now, histvars, enc, ret, apivars >>

\* the byte given up when the buffer is full
monitor_uart_queue_char_full_drop(p) ==
  /\ pc[p] = "write" /\ sub[p] = "crit" /\ crit = p
  /\ ringbuf_full(tx_ringbuf_head, tx_ringbuf_tail)
  /\ tx_running' = TRUE
  /\ qc_kicked' = [qc_kicked EXCEPT ![p] = TRUE]
  /\ crit' = 0
  /\ i' = [i EXCEPT ![p] = @ + 1]
  /\ sub' = [sub EXCEPT ![p] = "loop"]
  /\ UNCHANGED << ringvars, lock, pc, job, k, budget, now, histvars, enc, ret, apivars >>

\* monitor_uart_queue_char, lines 71-75: the buffer is full: uart_start_tx,
\* OS_EXIT_CRITICAL
monitor_uart_queue_char_full(p) ==
  /\ pc[p] = "write" /\ sub[p] = "crit" /\ crit = p
  /\ ringbuf_full(tx_ringbuf_head, tx_ringbuf_tail)
  /\ tx_running' = TRUE
  /\ qc_kicked' = [qc_kicked EXCEPT ![p] = TRUE]
  /\ crit' = 0
  /\ sub' = [sub EXCEPT ![p] = "spin"]
  /\ UNCHANGED << ringvars, lock, pc, job, k, i, budget, now, histvars, enc, ret, apivars >>

\* monitor_uart_queue_char, line 75: OS_ENTER_CRITICAL inside the loop
monitor_uart_queue_char_retry(p) ==
  /\ pc[p] = "write" /\ sub[p] = "spin" /\ crit = 0
  /\ crit' = p
  /\ sub' = [sub EXCEPT ![p] = "crit"]
  /\ UNCHANGED << ringvars, lock, tx_running, pc, job, k, i, qc_kicked, budget, now, histvars, enc, ret, apivars >>

\* the full test passed with interrupts enabled again
monitor_uart_queue_char_room_exit(p) ==
  /\ pc[p] = "write" /\ sub[p] = "crit" /\ crit = p
  /\ ~ ringbuf_full(tx_ringbuf_head, tx_ringbuf_tail)
  /\ crit' = 0
  /\ sub' = [sub EXCEPT ![p] = "store"]
  /\ UNCHANGED << ringvars, lock, tx_running, pc, job, k, i, qc_kicked, budget, now, histvars, enc, ret, apivars >>

\* the byte stored whether or not the buffer is full
monitor_uart_queue_char_room_always(p) ==
  /\ pc[p] = "write" /\ sub[p] = "crit" /\ crit = p
  /\ sub' = [sub EXCEPT ![p] = "store"]
  /\ UNCHANGED << ringvars, lock, crit, tx_running, pc, job, k, i, qc_kicked, budget, now, histvars, enc, ret, apivars >>

\* monitor_uart_queue_char, lines 71-72: the loop condition is false
monitor_uart_queue_char_room(p) ==
  /\ pc[p] = "write" /\ sub[p] = "crit" /\ crit = p
  /\ ~ ringbuf_full(tx_ringbuf_head, tx_ringbuf_tail)
  /\ sub' = [sub EXCEPT ![p] = "store"]
  /\ UNCHANGED << ringvars, lock, crit, tx_running, pc, job, k, i, qc_kicked, budget, now, histvars, enc, ret, apivars >>

\* monitor_uart_queue_char, lines 78-81: store, advance head, OS_EXIT_CRITICAL
monitor_uart_queue_char_store(p) ==
  /\ pc[p] = "write" /\ sub[p] = "store" /\ crit = p
  /\ tx_ringbuf' = [tx_ringbuf EXCEPT ![tx_ringbuf_head] = job[p].bufs[k[p]][i[p] + 1]]
  /\ tx_ringbuf_head' = U8(inc_and_wrap(tx_ringbuf_head, SizeofRingbuf))
  /\ crit' = 0
  /\ i' = [i EXCEPT ![p] = @ + 1]
  /\ sub' = [sub EXCEPT ![p] = "loop"]
  /\ UNCHANGED << tx_ringbuf_tail, lock, tx_running, pc, job, k, qc_kicked, budget, now, histvars, enc, ret, apivars >>

\* monitor_write returning without uart_start_tx
monitor_write_done_nokick(p) ==
  /\ pc[p] = "write" /\ sub[p] = "loop" /\ crit = 0
  /\ i[p] = Len(job[p].bufs[k[p]])
  /\ IF k[p] < Len(job[p].bufs)
     THEN /\ k' = [k EXCEPT ![p] = @ + 1]
          /\ pc' = pc
     ELSE /\ k' = k
          /\ pc' = [pc EXCEPT ![p] = "release"]
  /\ i' = [i EXCEPT ![p] = 0]
  /\ UNCHANGED << ringvars, lock, crit, tx_running, job, sub, qc_kicked, budget, now, histvars, enc, ret, apivars >>

\* the lock released once the header is queued
monitor_write_done_unlock(p) ==
  /\ pc[p] = "write" /\ sub[p] = "loop" /\ crit = 0
  /\ i[p] = Len(job[p].bufs[k[p]])
  /\ tx_running' = TRUE
  /\ lock' = IF k[p] = 1 THEN 0 ELSE lock
  /\ IF k[p] < Len(job[p].bufs)
     THEN /\ k' = [k EXCEPT ![p] = @ + 1]
          /\ pc' = pc
     ELSE /\ k' = k
          /\ pc' = [pc EXCEPT ![p] = "release"]
  /\ i' = [i EXCEPT ![p] = 0]
  /\ UNCHANGED << ringvars, crit, job, sub, qc_kicked, budget, now, histvars, enc, ret, apivars >>

\* monitor_write, line 93: uart_start_tx(uart) after the loop; the caller
\* goes on to its next buffer or to os_mutex_release
monitor_write_done(p) ==
  /\ pc[p] = "write" /\ sub[p] = "loop" /\ crit = 0
  /\ i[p] = Len(job[p].bufs[k[p]])
  /\ tx_running' = TRUE
  /\ IF k[p] < Len(job[p].bufs)
     THEN /\ k' = [k EXCEPT ![p] = @ + 1]
          /\ pc' = pc
     ELSE /\ k' = k
          /\ pc' = [pc EXCEPT ![p] = "release"]
  /\ i' = [i EXCEPT ![p] = 0]
  /\ UNCHANGED << ringvars, lock, crit, job, sub, qc_kicked, budget, now, histvars, enc, ret, apivars >>

\* os_mutex_release(&lock); return 0
os_mutex_release(p) ==
  /\ pc[p] = "release" /\ crit = 0
  /\ lock' = 0
  /\ pc' = [pc EXCEPT ![p] = "idle"]
  /\ job' = [job EXCEPT ![p] = NoJob]
  /\ k' = [k EXCEPT ![p] = 0]
  /\ ret' = [ret EXCEPT ![p] = Append(@, 0)]
  /\ UNCHANGED << ringvars, crit, tx_running, i, sub, qc_kicked, budget, now, histvars, enc, apivars >>

\* ------------------------------------------------------------------------
\* UART driver

\* the TX interrupt: taken only with interrupts enabled, it calls the
\* uc_tx_char callback once; on -1 the driver stops until the next uart_start_tx
uart_tx_isr ==
  /\ tx_running /\ crit = 0
  /\ LET r == monitor_uart_tx_char(tx_ringbuf, tx_ringbuf_head, tx_ringbuf_tail)
     IN  /\ tx_ringbuf_tail' = r.tail
         /\ IF r.ret < 0
            THEN /\ tx_running' = FALSE
                 /\ wire' = wire
            ELSE /\ tx_running' = tx_running
                 /\ wire' = Append(wire, r.ret)
  /\ UNCHANGED << tx_ringbuf, tx_ringbuf_head, lock, crit, pc, job, k, i, sub,
                  qc_kicked, budget, now, pushed, records, enc, ret, apivars >>

Producer(p) ==
  \/ ble_monitor_send_encode(p)
  \/ ble_monitor_send_om_encode(p)
  \/ os_mutex_pend(p)
  \/ monitor_write_next(p)
  \/ monitor_uart_queue_char_full(p)
  \/ monitor_uart_queue_char_retry(p)
  \/ monitor_uart_queue_char_room(p)
  \/ monitor_uart_queue_char_store(p)
  \/ monitor_write_done(p)
  \/ os_mutex_release(p)

Next == (\E p \in Producers : Producer(p)) \/ uart_tx_isr

Spec == Init /\ [][Next]_vars

\* the steps of producer p inside a call
InCall(p) ==
  \/ os_mutex_pend(p)
  \/ monitor_write_next(p)
  \/ monitor_uart_queue_char_full(p)
  \/ monitor_uart_queue_char_retry(p)
  \/ monitor_uart_queue_char_room(p)
  \/ monitor_uart_queue_char_store(p)
  \/ monitor_write_done(p)
  \/ os_mutex_release(p)

\* The scheduling: a task inside a call keeps running when it can (nothing
\* obliges a task to make a call), and the TX interrupt, once enabled by
\* uart_start_tx, is taken at some OS_EXIT_CRITICAL even though the waiting
\* producer disables interrupts again and again.
LiveSpec ==
  /\ InitLive /\ [][Next]_vars
  /\ \A p \in Producers : WF_vars(InCall(p))
  /\ SF_vars(uart_tx_isr)

\* ------------------------------------------------------------------------
\* The calls taken one at a time, by their lengths: what the header declares
\* against what monitor_write is asked to queue

\* size_t len values passed to ble_monitor_send
EncLens ==
  (0..LenSlack) \cup {10} \cup ((65526 - LenSlack)..(65527 + LenSlack))
    \cup ((65535 - LenSlack)..(65536 + LenSlack))

\* om_len values (uint16_t) of the fragments of a chain
EncOmLens == {0, 1, 32768, 65526, 65535}

\* the chains passed to ble_monitor_send_om, as their fragments' om_len
EncChains ==
  { << >> } \cup { << a >> : a \in EncOmLens }
    \cup { << a, b >> : a \in EncOmLens, b \in EncOmLens }

EncOpcodes == {2, 65535}

\* what the clock sources may return to one call: os_gettimeofday fails or
\* not, on either side of UTC01_01_2016, and the uptime on either side of
\* 2^32 * 100 us = 429496 s 729600 us
EncTimes ==
  { [rc |-> rc, tv_sec |-> s, tv_usec |-> u, up_sec |-> up[1], up_usec |-> up[2]] :
      rc \in {0, -1},
      s \in {0, UTC01_01_2016 - 1, UTC01_01_2016, UTC01_01_2016 + 1},
      u \in {0, 999999},
      up \in { <<0, 0>>, <<0, 199>>, <<429496, 729599>>, <<429496, 729600>> } }

EncIdle == [pc |-> "idle"]

InitEnc == InitWith(NoWorkload, EncIdle)

notenc == << tx_ringbuf, tx_ringbuf_head, tx_ringbuf_tail, lock, crit, tx_running,
             pc, job, k, i, sub, qc_kicked, budget, now, pushed, wire, records,
             ret, uart, init_trace >>

\* the call in progress: its arguments (len is the payload length the caller
\* handed over: the size_t len, or the om_len of every fragment), the header,
\* the len of each monitor_write call still to make, and the bytes the calls
\* made so far were asked to queue
EncCall(api, opcode, lens, t, hdr) ==
  [ pc |-> "write", api |-> api, opcode |-> opcode, lens |-> lens, t |-> t,
    hdr |-> hdr, todo |-> << Len(hdr_bytes(hdr)) >> \o lens,
    hdr_queued |-> 0, data_queued |-> 0 ]

\* ble_monitor_send, line 153
enc_ble_monitor_send ==
  /\ enc.pc = "idle"
  /\ \E opcode \in EncOpcodes, len \in EncLens, t \in EncTimes :
       enc' = EncCall("send", opcode, << len >>, t,
                      encode_monitor_hdr(-1, opcode, len, t))
  /\ UNCHANGED notenc

\* ble_monitor_send_om, lines 170-178
enc_ble_monitor_send_om ==
  /\ enc.pc = "idle"
  /\ \E opcode \in EncOpcodes, lens \in EncChains, t \in EncTimes :
       enc' = EncCall("send_om", opcode, lens, t,
                      encode_monitor_hdr(-1, opcode, om_length(lens, 0), t))
  /\ UNCHANGED notenc

\* monitor_write(&hdr, sizeof(hdr)), lines 157 and 182
enc_monitor_write_hdr ==
  /\ enc.pc = "write" /\ enc.hdr_queued = 0
  /\ enc' = [enc EXCEPT !.hdr_queued = Head(enc.todo), !.todo = Tail(enc.todo),
                        !.pc = IF Tail(enc.todo) = << >> THEN "done" ELSE "write"]
  /\ UNCHANGED notenc

\* monitor_write(data, len), line 158; monitor_write(om->om_data, om->om_len),
\* line 185
enc_monitor_write_data ==
  /\ enc.pc = "write" /\ enc.hdr_queued > 0
  /\ enc' = [enc EXCEPT !.data_queued = @ + Head(enc.todo), !.todo = Tail(enc.todo),
                        !.pc = IF Tail(enc.todo) = << >> THEN "done" ELSE "write"]
  /\ UNCHANGED notenc

\* return 0
enc_return ==
  /\ enc.pc = "done"
  /\ enc' = EncIdle
  /\ UNCHANGED notenc

NextEnc ==
  \/ enc_ble_monitor_send
  \/ enc_ble_monitor_send_om
  \/ enc_monitor_write_hdr
  \/ enc_monitor_write_data
  \/ enc_return

SpecEnc == InitEnc /\ [][NextEnc]_vars

\* ------------------------------------------------------------------------
\* ble_monitor_init and ble_monitor_new_index, from the start of the program

\* memcpy(pkt.bdaddr, addr, 6): the length copied
SizeofBdaddr == 6

\* sizeof(pkt.name), and BLE_MONITOR_OPCODE_NEW_INDEX
\* (struct ble_monitor_new_index is declared in ble_monitor_priv.h)
SizeofName == 8
BLE_MONITOR_OPCODE_NEW_INDEX == 0

\* sizeof(struct ble_monitor_new_index): type, bus, bdaddr, name (packed)
SizeofPkt == 1 + 1 + SizeofBdaddr + SizeofName

\* length of the longest name passed to ble_monitor_new_index
NameMax == 9

\* the names passed to ble_monitor_new_index: C strings, here without their
\* terminating null, of 0 to NameMax characters
IndexNames == UNION { [1..n -> {65, 66}] : n \in 0..NameMax }

IndexAddrs == { << 1, 2, 3, 4, 5, 6 >>, [j \in 1..SizeofBdaddr |-> 255] }

\* memcpy(dst + off, src, n)
memcpy(dst, off, src, n) ==
  [j \in 1..Len(dst) |-> IF j > off /\ j <= off + n THEN src[j - off] ELSE dst[j]]

\* strncpy(dst + off, src, n): the characters of src up to n of them, and
\* nulls up to n when src is shorter; no null when src has n or more
strncpy(dst, off, src, n) ==
  [j \in 1..Len(dst) |->
     IF j > off /\ j <= off + n
     THEN IF j - off <= Len(src) THEN src[j - off] ELSE 0
     ELSE dst[j]]

\* the packet filled by strncpy over the whole name field and nothing more
ble_monitor_new_index_pkt_noterm(bus, addr, name, stack) ==
  LET pkt0 == [j \in 1..SizeofPkt |-> stack]
      pkt1 == [pkt0 EXCEPT ![1] = 0]
      pkt2 == [pkt1 EXCEPT ![2] = U8(bus)]
      pkt3 == memcpy(pkt2, 2, addr, SizeofBdaddr)
  IN  strncpy(pkt3, 2 + SizeofBdaddr, name, SizeofName)

\* ble_monitor_new_index, lines 197-203: pkt, a local variable whose bytes
\* all hold the value stack at first, as the function fills it
ble_monitor_new_index_pkt(bus, addr, name, stack) ==
  LET pkt0 == [j \in 1..SizeofPkt |-> stack]
      pkt1 == [pkt0 EXCEPT ![1] = 0]
      pkt2 == [pkt1 EXCEPT ![2] = U8(bus)]
      pkt3 == memcpy(pkt2, 2, addr, SizeofBdaddr)
      pkt4 == strncpy(pkt3, 2 + SizeofBdaddr, name, SizeofName - 1)
  IN  [pkt4 EXCEPT ![SizeofPkt] = 0]

\* static storage before ble_monitor_init: all zero, no task in a call
InitApi ==
  /\ tx_ringbuf = [j \in 0..(SizeofRingbuf - 1) |-> 0]
  /\ tx_ringbuf_head = 0
  /\ tx_ringbuf_tail = 0
  /\ lock = 0
  /\ crit = 0
  /\ tx_running = FALSE
  /\ pc = [p \in Producers |-> "idle"]
  /\ job = [p \in Producers |-> NoJob]
  /\ k = [p \in Producers |-> 0]
  /\ i = [p \in Producers |-> 0]
  /\ sub = [p \in Producers |-> "loop"]
  /\ qc_kicked = [p \in Producers |-> FALSE]
  /\ budget = NoWorkload
  /\ now = 0
  /\ pushed = << >>
  /\ wire = << >>
  /\ records = << >>
  /\ enc = [pc |-> "boot"]
  /\ ret = [p \in Producers |-> << >>]
  /\ uart = "NULL"
  /\ init_trace = << >>

\* ble_monitor_init, lines 123-146: os_dev_open returns the device or NULL
ble_monitor_init ==
  /\ enc.pc = "boot"
  /\ \E dev \in {"NULL", "uart0"} :
       /\ uart' = dev
       /\ init_trace' = ble_monitor_init_trace(dev)
  /\ enc' = IF init_trace'[Len(init_trace')].res = 0 THEN EncIdle ELSE [pc |-> "failed"]
  /\ UNCHANGED << tx_ringbuf, tx_ringbuf_head, tx_ringbuf_tail, lock, crit, tx_running,
                  pc, job, k, i, sub, qc_kicked, budget, now, pushed, wire, records, ret >>

\* ble_monitor_new_index, lines 194-205: fill pkt, then
\* ble_monitor_send(BLE_MONITOR_OPCODE_NEW_INDEX, &pkt, sizeof(pkt))
enc_ble_monitor_new_index ==
  /\ enc.pc = "idle"
  /\ \E bus \in {0, 255}, addr \in IndexAddrs, name \in IndexNames, stack \in {0, 255} :
       LET pkt == ble_monitor_new_index_pkt(bus, addr, name, stack)
           t == ClockRead(now)
       IN  enc' = EncCall("new_index", BLE_MONITOR_OPCODE_NEW_INDEX, << Len(pkt) >>, t,
                          encode_monitor_hdr(-1, BLE_MONITOR_OPCODE_NEW_INDEX, Len(pkt), t))
                    @@ [bus |-> bus, addr |-> addr, name |-> name, pkt |-> pkt]
  /\ UNCHANGED notenc

NextApi ==
  \/ ble_monitor_init
  \/ enc_ble_monitor_new_index
  \/ enc_monitor_write_hdr
  \/ enc_monitor_write_data
  \/ enc_return

SpecApi == InitApi /\ [][NextApi]_vars

\* ------------------------------------------------------------------------
\* Properties

IsPrefix(a, b) == Len(a) <= Len(b) /\ a = SubSeq(b, 1, Len(a))

RECURSIVE Sum(_)
Sum(ns) == IF ns = << >> THEN 0 ELSE Head(ns) + Sum(Tail(ns))

\* the producers inside a monitor_uart_queue_char call
InQueueChar == { p \in Producers : pc[p] = "write" /\ sub[p] # "loop" }

\* bytes stored in the ring buffer and not yet pulled
Queued == Len(pushed) - Cardinality(InQueueChar) - Len(wire)

\* the value of a uint16_t stored little-endian at b[j], b[j + 1]
Le16At(b, j) == b[j] + 256 * b[j + 1]

\* C1: the bytes pulled by the UART are a prefix of the concatenation of the
\* whole records (header, then payload) in the order the lock was taken: no
\* byte of another record appears inside a record.
C1_WholeRecords == IsPrefix(wire, Flatten(records))

\* C1 witness: two records were sent and bytes of the second are on the wire
C1_Witness == Len(records) = 2 /\ Len(wire) > Len(records[1])

\* C2: the bytes returned by monitor_uart_tx_char are a prefix of the bytes
\* passed to monitor_uart_queue_char: same order, none lost or duplicated.
C2_Fifo == IsPrefix(wire, pushed)

\* C2 witness: a producer waits on a full buffer whose first bytes were pulled
C2_Witness == \E p \in Producers : sub[p] = "spin" /\ Len(wire) > 0

\* C3: the empty test is true exactly when no byte is queued, the full test
\* exactly when sizeof(tx_ringbuf) - 1 = 63 bytes are queued.
C3_EmptyFull ==
  /\ (tx_ringbuf_head = tx_ringbuf_tail) <=> (Queued = 0)
  /\ ringbuf_full(tx_ringbuf_head, tx_ringbuf_tail) <=> (Queued = SizeofRingbuf - 1)

\* C3 witness: the buffer is full after the indices wrapped
C3_Witness == Queued = SizeofRingbuf - 1 /\ tx_ringbuf_head < tx_ringbuf_tail

\* the payload length the caller handed to the call in enc
EncPayloadLen == Sum(enc.lens)

\* C4 as claimed: for every payload length L, data_len = 4 + 5 + L and
\* hdr_len = 5.
C4_Original ==
  enc.pc = "done" => (enc.hdr.data_len = 4 + 5 + EncPayloadLen /\ enc.hdr.hdr_len = 5)

\* C4 amended: hdr_len = 5, and data_len = (4 + 5 + L) mod 2^16, which is
\* 4 + 5 + L exactly when L <= 65526.
C4_DataLen ==
  enc.pc = "done" =>
    /\ enc.hdr.hdr_len = 5
    /\ enc.hdr.data_len = (4 + 5 + EncPayloadLen) % 65536
    /\ EncPayloadLen <= 65526 => enc.hdr.data_len = 4 + 5 + EncPayloadLen

\* C4 witness: a chain of two fragments whose lengths sum to the largest
\* length the header can declare
C4_Witness ==
  enc.pc = "done" /\ enc.api = "send_om" /\ Len(enc.lens) = 2 /\ EncPayloadLen = 65526

\* C5 as claimed: for every record the payload bytes queued after the header
\* are as many as the header declares (data_len - 9).
C5_Original ==
  enc.pc = "done" => enc.data_queued = enc.hdr.data_len - 9

\* C5 amended: for every record whose payload is at most 65526 bytes long,
\* the whole header is queued first and the payload bytes queued after it are
\* as many as the header declares (data_len - 9).
C5_DeclaredLen ==
  (enc.pc = "done" /\ EncPayloadLen <= 65526) =>
    /\ enc.hdr_queued = Len(hdr_bytes(enc.hdr))
    /\ enc.data_queued = enc.hdr.data_len - 9

\* C5 witness: a record of two non-empty fragments was queued
C5_Witness ==
  /\ enc.pc = "done" /\ enc.api = "send_om" /\ Len(enc.lens) = 2
  /\ enc.lens[1] > 0 /\ enc.lens[2] > 0 /\ EncPayloadLen <= 65526

\* the uptime of enc's clock reading in 100 us ticks, as ts32 holds it
EncUptimeTs32 == Le32OfBig(BigDivSmall(Usec(enc.t.up_sec, enc.t.up_usec), 100))

\* the wall clock of enc's clock reading in 100 us ticks
EncWallTicks == BigDivSmall(Usec(enc.t.tv_sec, enc.t.tv_usec), 100)

\* C6: when os_gettimeofday fails or returns tv_sec < UTC01_01_2016, ts32
\* comes from os_get_uptime_usec alone.
C6_UptimeFallback ==
  (enc.pc # "idle" /\ (enc.t.rc # 0 \/ enc.t.tv_sec < 1451606400)) =>
    enc.hdr.ts32 = EncUptimeTs32

\* C6 witness: os_gettimeofday failed, leaving a tv_sec that looks valid and
\* would give another ts32
C6_Witness ==
  /\ enc.pc = "done" /\ enc.t.rc # 0 /\ enc.t.tv_sec >= 1451606400
  /\ Le32OfBig(EncWallTicks) # EncUptimeTs32

\* the timestamp C7 states: the wall clock when it was read and is at or
\* after 1 Jan 2016, else the uptime
EncClaimedTs ==
  IF enc.t.rc = 0 /\ enc.t.tv_sec >= 1451606400
  THEN Usec(enc.t.tv_sec, enc.t.tv_usec)
  ELSE Usec(enc.t.up_sec, enc.t.up_usec)

\* a uint32_t widened to int64_t
Widen32(b) == b \o [j \in 1..(SizeofInt64 - SizeofTs32) |-> 0]

\* C7 as claimed: ts32 is the timestamp in 100 us ticks, timestamp_usec / 100,
\* for every timestamp the clock sources return.
C7_Original ==
  enc.pc = "done" => Widen32(enc.hdr.ts32) = BigDivSmall(EncClaimedTs, 100)

\* C7 amended: the timestamp is the wall clock when os_gettimeofday succeeds
\* with tv_sec >= 1451606400 (the boundary included), and ts32 holds the low
\* 32 bits of timestamp_usec / 100: the tick count itself only while it is
\* below 2^32.
C7_Ts32 ==
  enc.pc = "done" =>
    LET ticks == BigDivSmall(EncClaimedTs, 100)
    IN  /\ enc.hdr.ts32 = SubSeq(ticks, 1, 4)
        /\ (\A j \in 5..8 : ticks[j] = 0) <=> (Widen32(enc.hdr.ts32) = ticks)

\* C7 witness: the wall clock reads exactly 1 Jan 2016 00:00:00 and differs
\* from the uptime
C7_Witness ==
  /\ enc.pc = "done" /\ enc.t.rc = 0 /\ enc.t.tv_sec = 1451606400
  /\ enc.hdr.ts32 # EncUptimeTs32

\* bytes of its record producer p has passed to monitor_uart_queue_char
Progress(p) ==
  IF pc[p] = "release" THEN Len(Flatten(job[p].bufs))
  ELSE Len(Flatten(SubSeq(job[p].bufs, 1, k[p] - 1))) + i[p]
         + (IF sub[p] = "loop" THEN 0 ELSE 1)

\* C8: ble_monitor_send_om declares in the header the sum of all fragment
\* lengths, and from os_mutex_pend to os_mutex_release it holds the lock
\* while the bytes queued since the lock was taken are the header followed by
\* the fragments in chain order.
C8_OmOneLock ==
  \A p \in Producers :
    (job[p].api = "send_om" /\ pc[p] # "idle") =>
      /\ Le16At(job[p].bufs[1], 1) = 4 + 5 + Len(Flatten(Tail(job[p].bufs)))
      /\ pc[p] \in {"write", "release"} =>
           /\ lock = p
           /\ records[Len(records)] = Flatten(job[p].bufs)
           /\ pushed = Flatten(SubSeq(records, 1, Len(records) - 1))
                         \o SubSeq(Flatten(job[p].bufs), 1, Progress(p))

\* C8 witness: the last fragment of a chain is being queued while the other
\* producer waits for the lock
C8_Witness ==
  \E p \in Producers :
    /\ job[p].api = "send_om" /\ pc[p] = "write"
    /\ k[p] = Len(job[p].bufs) /\ i[p] = 1
    /\ \E q \in Producers : pc[q] = "pend"

\* C9 as claimed: every monitor_uart_queue_char call kicks the transmitter,
\* whether or not the buffer was full.
C9_Original ==
  \A p \in Producers :
    (pc[p] = "write" /\ sub[p] = "loop" /\ i[p] > 0) => qc_kicked[p]

\* C9 amended: monitor_write calls uart_start_tx once its bytes are queued,
\* in every call; monitor_uart_queue_char calls it each time it finds the
\* buffer full, and not when it finds room.
C9_Kicks ==
  [][ \A p \in Producers :
        /\ (pc[p] = "write" /\ sub[p] = "loop" /\ (k'[p] # k[p] \/ pc'[p] = "release"))
             => tx_running'
        /\ (pc[p] = "write" /\ sub[p] = "crit" /\ sub'[p] = "spin")
             => (Queued = SizeofRingbuf - 1 /\ tx_running' /\ qc_kicked'[p])
        /\ (pc[p] = "write" /\ sub[p] = "crit" /\ sub'[p] = "store")
             => (Queued < SizeofRingbuf - 1 /\ tx_running' = tx_running
                 /\ qc_kicked'[p] = qc_kicked[p])
        /\ (pc[p] = "write" /\ sub[p] = "store" /\ sub'[p] = "loop")
             => (tx_running' = tx_running /\ qc_kicked'[p] = qc_kicked[p]) ]_vars

\* C9 witness: a monitor_uart_queue_char call returned after it had found
\* the buffer full and kicked the transmitter
C9_Witness ==
  \E p \in Producers : pc[p] = "write" /\ sub[p] = "loop" /\ i[p] > 0 /\ qc_kicked[p]

\* C10: with the TX interrupt served whenever interrupts are enabled, a
\* producer waiting on a full buffer gets to store its byte, and every
\* ble_monitor_send / ble_monitor_send_om call returns.
C10_SendReturns ==
  \A p \in Producers :
    /\ (pc[p] = "write" /\ sub[p] = "spin") ~> (pc[p] = "write" /\ sub[p] = "loop")
    /\ (pc[p] # "idle") ~> (pc[p] = "idle")

\* C10 witness: a producer finds the buffer full while the transmitter is
\* idle: only the kick of this very call restarts it
C10_Witness ==
  \E p \in Producers :
    /\ pc[p] = "write" /\ sub[p] = "crit"
    /\ ringbuf_full(tx_ringbuf_head, tx_ringbuf_tail)
    /\ ~ tx_running

\* C16: at most one producer is between os_mutex_pend and os_mutex_release,
\* and it owns the lock all the while, also inside monitor_uart_queue_char
\* on a full buffer; while a producer is inside monitor_uart_queue_char the
\* only step that writes the storage or advances head is its own store, and
\* no other producer passes a byte or moves.
C16_LockHeld ==
  /\ [](\A p \in Producers :
          pc[p] \in {"write", "release"} =>
            /\ lock = p
            /\ \A q \in Producers \ {p} : pc[q] \in {"idle", "pend"})
  /\ [][ \A p \in Producers :
           (pc[p] = "write" /\ sub[p] # "loop") =>
             /\ lock' = p /\ pc'[p] = "write"
             /\ \A q \in Producers \ {p} :
                  /\ pc'[q] \in {"idle", "pend"}
                  /\ i'[q] = i[q] /\ k'[q] = k[q] /\ sub'[q] = sub[q]
             /\ pushed' = pushed
             /\ (tx_ringbuf_head' # tx_ringbuf_head \/ tx_ringbuf' # tx_ringbuf) =>
                  /\ sub[p] = "store" /\ sub'[p] = "loop" /\ i'[p] = i[p] + 1
                  /\ tx_ringbuf' = [tx_ringbuf EXCEPT ![tx_ringbuf_head] =
                                      job[p].bufs[k[p]][i[p] + 1]] ]_vars

\* C16 witness: a producer waits on the full buffer, the lock is its own,
\* and the other producer waits in os_mutex_pend
C16_Witness ==
  \E p \in Producers :
    /\ pc[p] = "write" /\ sub[p] = "spin" /\ lock = p
    /\ \E q \in Producers \ {p} : pc[q] = "pend"

\* C17: head and the storage change only in the store step of the producer
\* that is inside the critical section and owns the lock, and that step
\* leaves tail alone; tail changes only in a step of the consumer, which
\* leaves head and the storage alone; from the full test to the advance of
\* head interrupts are disabled and the consumer does not run.
C17_SingleWriter ==
  /\ [](\A p \in Producers :
          (pc[p] = "write" /\ sub[p] \in {"crit", "store"}) => crit = p)
  /\ [][ /\ (tx_ringbuf_head' # tx_ringbuf_head \/ tx_ringbuf' # tx_ringbuf) =>
              /\ \E p \in Producers :
                   crit = p /\ lock = p /\ pc[p] = "write" /\ sub[p] = "store"
              /\ tx_ringbuf_tail' = tx_ringbuf_tail /\ wire' = wire
         /\ (tx_ringbuf_tail' # tx_ringbuf_tail \/ wire' # wire) =>
              /\ crit = 0
              /\ \A p \in Producers : sub[p] \notin {"crit", "store"}
              /\ tx_ringbuf_head' = tx_ringbuf_head /\ tx_ringbuf' = tx_ringbuf
              /\ pc' = pc /\ i' = i /\ k' = k /\ sub' = sub /\ pushed' = pushed ]_vars

\* C17 witness: a producer has passed the full test and not yet advanced
\* head while the transmitter is running with bytes to pull
C17_Witness ==
  \E p \in Producers :
    /\ pc[p] = "write" /\ sub[p] = "store"
    /\ tx_running /\ tx_ringbuf_head # tx_ringbuf_tail

\* a step of the TX interrupt: a byte reaches the wire or the driver stops
TxCharStep == wire' # wire \/ (tx_running /\ ~ tx_running')

\* C18: with head = tail monitor_uart_tx_char returns -1 and changes
\* nothing; otherwise it returns the byte at tail, a value in 0..255 (0xFF
\* too, never -1), advances tail by one modulo 64 and leaves head and the
\* storage alone.
C18_TxChar ==
  /\ [](LET r == monitor_uart_tx_char(tx_ringbuf, tx_ringbuf_head, tx_ringbuf_tail)
        IN  IF tx_ringbuf_head = tx_ringbuf_tail
            THEN r.ret = -1 /\ r.tail = tx_ringbuf_tail
            ELSE /\ r.ret = tx_ringbuf[tx_ringbuf_tail] /\ r.ret \in 0..255
                 /\ r.tail = (tx_ringbuf_tail + 1) % 64)
  /\ [][ TxCharStep =>
           /\ tx_ringbuf_head' = tx_ringbuf_head /\ tx_ringbuf' = tx_ringbuf
           /\ IF tx_ringbuf_head = tx_ringbuf_tail
              THEN tx_ringbuf_tail' = tx_ringbuf_tail /\ wire' = wire /\ ~ tx_running'
              ELSE /\ tx_ringbuf_tail' = (tx_ringbuf_tail + 1) % 64
                   /\ wire' = Append(wire, tx_ringbuf[tx_ringbuf_tail])
                   /\ tx_running' ]_vars

\* C18 witness: the byte 0xFF was pulled, and a later pull returned -1
C18_Witness ==
  /\ \E j \in 1..Len(wire) : wire[j] = 255
  /\ ~ tx_running /\ tx_ringbuf_head = tx_ringbuf_tail

\* C19: head and tail are in 0..63, (head - tail) mod 64 is the number of
\* bytes stored and not yet pulled, which is between 0 and 63, and the slots
\* from tail up to head hold exactly those bytes: none was overwritten.
C19_Occupancy ==
  /\ tx_ringbuf_head \in 0..63 /\ tx_ringbuf_tail \in 0..63
  /\ (tx_ringbuf_head - tx_ringbuf_tail) % 64 = Queued
  /\ Queued \in 0..63
  /\ \A j \in 1..Queued :
       tx_ringbuf[(tx_ringbuf_tail + j - 1) % 64] = pushed[Len(wire) + j]

\* C19 witness: the buffer holds 63 bytes across the wrap of head, and a
\* producer waits to store the next one
C19_Witness ==
  /\ Queued = 63 /\ tx_ringbuf_tail > 1
  /\ \E p \in Producers : pc[p] = "write" /\ sub[p] = "spin"

\* the calls that have returned
Returned == Sum([p \in 1..Cardinality(Producers) |-> Len(ret[p])])

\* C12: every value ble_monitor_send / ble_monitor_send_om returned is 0,
\* and a call is past its last monitor_write, or has returned, only with
\* every byte of its record, header then payload, stored in the ring buffer:
\* the bytes stored since the start are the whole records, and the records
\* are as many as the calls that took the lock.
C12_NoFailure ==
  /\ \A p \in Producers : \A j \in 1..Len(ret[p]) : ret[p][j] = 0
  /\ Len(records) = Returned + Cardinality({p \in Producers : pc[p] \in {"write", "release"}})
  /\ (\A p \in Producers : pc[p] # "write") =>
       /\ pushed = Flatten(records)
       /\ (tx_ringbuf_head - tx_ringbuf_tail) % 64 = Len(pushed) - Len(wire)
       /\ \A j \in 1..(Len(pushed) - Len(wire)) :
            tx_ringbuf[(tx_ringbuf_tail + j - 1) % 64] = pushed[Len(wire) + j]

\* C12 witness: a call that had to wait for room is about to return, its
\* last bytes filling the buffer
C12_Witness ==
  \E p \in Producers :
    /\ pc[p] = "release" /\ Len(Flatten(job[p].bufs)) > 64
    /\ (tx_ringbuf_head - tx_ringbuf_tail) % 64 = 63

\* the ts32 of a record's header, as a number
Ts32Of(rec) == rec[9] + 256 * rec[10] + 65536 * rec[11] + 16777216 * rec[12]

\* the first n records, whole
WireUpTo(n) == Flatten(SubSeq(records, 1, n))

\* C20 as claimed: the records on the wire are in non-decreasing order of
\* their header timestamps.
C20_Original ==
  \A a \in 1..Len(records) : \A b \in 1..Len(records) :
    (a < b /\ Len(wire) >= Len(WireUpTo(b))) => Ts32Of(records[a]) <= Ts32Of(records[b])

\* C20 amended: a header carries the clock as read when the call began,
\* before os_mutex_pend; the records go on the wire in the order the lock
\* was taken; so a record's timestamp is not earlier than that of any record
\* whose call had taken the lock before the clock was read.
C20_LockOrder ==
  /\ [](IsPrefix(wire, WireUpTo(Len(records))))
  /\ [][ \A p \in Producers :
           /\ (pc[p] = "idle" /\ pc'[p] = "pend") =>
                /\ Ts32Of(job'[p].bufs[1]) = now /\ now' > now
                /\ \A a \in 1..Len(records) : Ts32Of(records[a]) <= Ts32Of(job'[p].bufs[1])
                /\ records' = records
           /\ (pc[p] = "pend" /\ pc'[p] = "write") =>
                records' = Append(records, Flatten(job[p].bufs))
           /\ (pc'[p] = pc[p] \/ pc[p] = "write" \/ pc[p] = "release") =>
                (records' = records \/ \E q \in Producers \ {p} : pc[q] = "pend" /\ pc'[q] = "write") ]_vars

\* C20 witness: a call that read the clock after another call had taken
\* the lock has its record on the wire behind that call's record
C20_Witness ==
  /\ Len(records) = 2 /\ Ts32Of(records[1]) < Ts32Of(records[2])
  /\ Len(wire) >= Len(WireUpTo(2))

\* the record of send(opcode = 0x0002, ten 0xAA bytes) stamped ts32:
\* data_len 19, hdr_len 5, opcode 2, flags 0, type, ts32, then the payload
ShortRecord(ts32) ==
  << 19, 0, 5, 2, 0, 0, 0, BLE_MONITOR_EXTHDR_TS32 >> \o ts32 \o [j \in 1..10 |-> 170]

\* the records of opcode 0x0002
ShortRecords == { n \in 1..Len(records) : Le16At(records[n], 4) = 2 }

\* the bytes on the wire from the first byte of record n on
WireFrom(n) == SubSeq(wire, Len(WireUpTo(n - 1)) + 1, Len(wire))

C11_Drained ==
  /\ []((Queued > 0 /\ ~ tx_running) => \E p \in Producers : pc[p] = "write")
  /\ (Len(records) > 0) ~> (wire = WireUpTo(Len(records)))
  /\ (Len(records) > 0 /\ \A p \in Producers : pc[p] = "idle")
       ~> (tx_ringbuf_head = tx_ringbuf_tail /\ wire = pushed)

\* C11 witness: the transmitter went idle after it had pulled the bytes of
\* the header, and payload bytes were queued since
C11_Witness ==
  /\ Queued > 0 /\ ~ tx_running /\ Len(wire) > 0
  /\ \E p \in Producers : pc[p] = "write" /\ k[p] > 1

\* the calls of fn in the trace of ble_monitor_init
InitCalls(fn) == { j \in 1..Len(init_trace) : init_trace[j].fn = fn }

\* C13: ble_monitor_init calls os_dev_open once, with monitor_uart_tx_char
\* as uc_tx_char; when that returns NULL it returns -1 with os_mutex_init
\* never called and the ring buffer as it was; else it calls os_mutex_init
\* on the lock and returns 0.
C13_Init ==
  enc.pc # "boot" =>
    LET open == init_trace[1]
        last == init_trace[Len(init_trace)]
    IN  /\ InitCalls("os_dev_open") = {1} /\ uart = open.res
        /\ open.uc_tx_char = "monitor_uart_tx_char"
        /\ InitCalls("return") = {Len(init_trace)}
        /\ IF uart = "NULL"
           THEN /\ last.res = -1 /\ InitCalls("os_mutex_init") = {}
                /\ enc.pc = "failed"
                /\ tx_ringbuf = [j \in 0..(SizeofRingbuf - 1) |-> 0]
                /\ tx_ringbuf_head = 0 /\ tx_ringbuf_tail = 0
           ELSE /\ last.res = 0 /\ InitCalls("os_mutex_init") = {2}
                /\ init_trace[2].res = "lock" /\ lock = 0
                /\ enc.pc # "failed"

\* C13 witness: os_dev_open returned NULL and ble_monitor_init has returned
C13_Witness == enc.pc = "failed" /\ uart = "NULL" /\ Len(init_trace) = 2

\* the name field of the packet of the ble_monitor_new_index call in enc
EncNameField == SubSeq(enc.pkt, SizeofPkt - SizeofName + 1, SizeofPkt)

\* C14: the record ble_monitor_new_index sends has a payload of
\* sizeof(struct ble_monitor_new_index) bytes whatever the name, the last
\* byte of its name field is null, and for a name longer than the field the
\* field holds the first sizeof(name) - 1 characters and then the null.
C14_NameField ==
  (enc.pc \in {"write", "done"} /\ enc.api = "new_index") =>
    /\ Len(enc.pkt) = SizeofPkt /\ enc.lens = << SizeofPkt >>
    /\ enc.hdr.data_len = 4 + 5 + SizeofPkt
    /\ enc.pc = "done" => enc.data_queued = SizeofPkt
    /\ EncNameField[SizeofName] = 0
    /\ Len(enc.name) > SizeofName =>
         EncNameField = SubSeq(enc.name, 1, SizeofName - 1) \o << 0 >>

\* C14 witness: a record was queued for a name longer than the name field
C14_Witness ==
  /\ enc.pc = "done" /\ enc.api = "new_index"
  /\ Len(enc.name) > SizeofName /\ enc.data_queued = SizeofPkt

====
